---- MODULE Spec2Model ----
(***************************************************************************)
(* Model of serve-web.py: a static file server for previewing a website.   *)
(*                                                                         *)
(* The script is glue over the Python standard library:                    *)
(*   os.makedirs(SERVE_DIR, exist_ok=True)                                 *)
(*   socketserver.TCPServer(("", PORT), Handler)  -- bind + listen         *)
(*   three print() calls                                                   *)
(*   httpd.serve_forever()                        -- accept / handle loop  *)
(* Handler is http.server.SimpleHTTPRequestHandler with directory=SERVE_DIR*)
(* and nothing else overridden, so the library defaults decide every       *)
(* response.  The process has no try/except, so every exception is fatal.  *)
(*                                                                         *)
(* The file system is the part of the world the program reads: the node    *)
(* named SERVE_DIR in the working directory and the regular files in it.   *)
(* Other processes may rewrite the files under the directory at any time   *)
(* (EnvWrite); they never remove the directory itself.                     *)
(***************************************************************************)
EXTENDS Integers, Sequences, FiniteSets, TLC

VARIABLES
    pc,           \* position of the script: start, bind, print1..3, serving, handling, exited
    fs,           \* the file system: SERVE_DIR node and the files in it
    initialRoot,  \* what SERVE_DIR was when the process started (history)
    cwdWritable,  \* can the process create SERVE_DIR in the working directory
    portFree,     \* will bind(("", PORT)) succeed (port unused, privilege ok)
    listener,     \* the listening socket: NoSocket, a bound address, or ClosedSocket
    binds,        \* number of bind attempts made (history)
    stdout,       \* lines written to standard output
    req,          \* request of the connection being handled, or NoReq
    accepted,     \* has any connection been accepted in this run (history)
    last,         \* the request just handled and its response, NoTxn once the next
                  \* connection is accepted or the directory contents change
    ref,          \* one earlier request and its response against the current
                  \* directory contents, arbitrarily chosen (history)
    exitCode,     \* process exit status, -1 while running
    uncaught      \* name of the exception that ended the process, or "none"

vars == <<pc, fs, initialRoot, cwdWritable, portFree, listener, binds, stdout,
          req, accepted, last, ref, exitCode, uncaught>>

(***************************************************************************)
(* Program constants                                                       *)
(***************************************************************************)
PORT == 8000
SERVE_DIR == "dist"

(***************************************************************************)
(* Bounds                                                                  *)
(***************************************************************************)
MaxTime == 2   \* file modification times range over 1..MaxTime

(***************************************************************************)
(* The file system                                                         *)
(***************************************************************************)
FileNames == {"index.html", "a.txt"}
Contents  == {"c1", "c2"}
FileRec   == [content : Contents, mtime : 1..MaxTime, readable : BOOLEAN]
NoFiles   == [n \in {} |-> [content |-> "c1", mtime |-> 1, readable |-> TRUE]]
DirFiles  == UNION {[S -> FileRec] : S \in SUBSET FileNames}

\* SERVE_DIR is absent, a regular file, or a directory holding files.
\* listable: os.listdir on the directory succeeds.
FsStates ==
    {[root |-> "absent", listable |-> TRUE, files |-> NoFiles],
     [root |-> "file",   listable |-> TRUE, files |-> NoFiles]}
    \cup [root : {"dir"}, listable : BOOLEAN, files : DirFiles]

\* os.makedirs creates an empty directory the owner can list.
EmptyDir == [root |-> "dir", listable |-> TRUE, files |-> NoFiles]

(***************************************************************************)
(* Requests and responses                                                  *)
(*                                                                         *)
(* A URL path is its sequence of segments: <<>> is "/", <<"a.txt">> is     *)
(* "/a.txt".  ims is the date of an If-Modified-Since header, 0 when the   *)
(* request has none; the handler only compares it with modification times, *)
(* so one date (1, the earliest modification time) stands for all: files   *)
(* modified at 1 are not newer than it, files modified later are.          *)
(* An HTTP/0.9 request is the two-word line "GET path" and has no headers. *)
(***************************************************************************)
Methods  == {"GET", "POST"}
UrlPaths == {<<>>, <<"a.txt">>, <<"missing">>}
Requests ==
    [method : Methods, path : UrlPaths, version : {"HTTP/1.1"}, ims : {0, 1}]
    \cup [method : {"GET"}, path : UrlPaths, version : {"HTTP/0.9"}, ims : {0}]

NoReq == [method |-> "none", path |-> <<>>, version |-> "none", ims |-> 0]

\* A response body: the bytes of a file, a directory listing (the names
\* listed), a generated error page, or nothing.
FileBody(c)    == [kind |-> "bytes",   bytes |-> c,  names |-> {}]
ListingBody(S) == [kind |-> "listing", bytes |-> "", names |-> S]
ErrorBody      == [kind |-> "error",   bytes |-> "", names |-> {}]
EmptyBody      == [kind |-> "empty",   bytes |-> "", names |-> {}]

(***************************************************************************)
(* Handler = SimpleHTTPRequestHandler(directory = SERVE_DIR)               *)
(***************************************************************************)
\* Mutant: the handler answers in the protocol version of modern clients.
protocol_version_11 == "HTTP/1.1"

\* The class overrides only __init__, so the status line carries the
\* library's default protocol_version.
protocol_version == "HTTP/1.0"

\* The directory every Handler instance is constructed with.
Handler_directory == SERVE_DIR

\* translate_path: the URL path resolved against the handler's directory.
translate_path(path) == <<Handler_directory>> \o path

isdir(p, f)  == p = <<SERVE_DIR>> /\ f.root = "dir"
isfile(p, f) == /\ Len(p) = 2
                /\ p[1] = SERVE_DIR
                /\ f.root = "dir"
                /\ p[2] \in DOMAIN f.files

\* open(path, 'rb') succeeds
CanOpen(p, f) == isfile(p, f) /\ f.files[p[2]].readable

\* send_error(404): status and generated page
NotFound == [status |-> 404, body |-> ErrorBody]

\* Mutant: the file is answered from a copy read once, not from the file
\* as it is now.
serve_file_stale(p, r, f) ==
    IF ~CanOpen(p, f) THEN NotFound
    ELSE LET file == f.files[p[2]] IN
         IF r.ims # 0 /\ file.mtime <= r.ims
         THEN [status |-> 304, body |-> EmptyBody]
         ELSE [status |-> 200, body |-> FileBody("c1")]

\* send_head from "ctype = ..." on: open the file, answer 304 to a
\* satisfied If-Modified-Since, else 200 with the file's bytes.
serve_file(p, r, f) ==
    IF ~CanOpen(p, f) THEN NotFound
    ELSE LET file == f.files[p[2]] IN
         IF r.ims # 0 /\ file.mtime <= r.ims
         THEN [status |-> 304, body |-> EmptyBody]
         ELSE [status |-> 200, body |-> FileBody(file.content)]

\* list_directory: os.listdir, 404 when it fails
list_directory(p, f) ==
    IF ~f.listable THEN NotFound
    ELSE [status |-> 200, body |-> ListingBody(DOMAIN f.files)]

\* Mutant: the handler looks for another index name first.
IndexNames_other == <<"default.html", "index.htm">>

\* the index names send_head looks for, in order
IndexNames == <<"index.html", "index.htm">>

\* send_head + copyfile
do_GET(r, f) ==
    LET path == translate_path(r.path) IN
    IF isdir(path, f)
    THEN IF \E i \in DOMAIN IndexNames : isfile(path \o <<IndexNames[i]>>, f)
         THEN LET i == CHOOSE i \in DOMAIN IndexNames :
                         /\ isfile(path \o <<IndexNames[i]>>, f)
                         /\ \A j \in 1..(i-1) : ~isfile(path \o <<IndexNames[j]>>, f)
              IN serve_file(path \o <<IndexNames[i]>>, r, f)
         ELSE list_directory(path, f)
    ELSE serve_file(path, r, f)

\* handle_one_request: dispatch on the method; a method without a do_*
\* attribute gets send_error(501)
dispatch(r, f) ==
    IF r.method = "GET" THEN do_GET(r, f)
    ELSE [status |-> 501, body |-> ErrorBody]

\* send_response_only writes a status line unless the request was HTTP/0.9
StatusLineVersion(r) ==
    IF r.version = "HTTP/0.9" THEN "none" ELSE protocol_version

\* The whole response to request r against file system f.
Respond(r, f) ==
    LET d == dispatch(r, f) IN
    [status  |-> d.status,
     version |-> StatusLineVersion(r),
     body    |-> d.body]

\* Mutant: a POST stores its body under the requested name.
HandlerWrites_upload(r, f) ==
    IF r.method = "POST" /\ Len(r.path) = 1 /\ f.root = "dir"
    THEN [f EXCEPT !.files =
             [m \in DOMAIN f.files \cup {r.path[1]} |->
                 IF m = r.path[1]
                 THEN [content |-> "c1", mtime |-> MaxTime, readable |-> TRUE]
                 ELSE f.files[m]]]
    ELSE f

\* What handling a request does to the file system: nothing.
HandlerWrites(r, f) == f

NoTxn == [req |-> NoReq, dir |-> "none",
          resp |-> [status |-> 0, version |-> "none", body |-> EmptyBody]]

(***************************************************************************)
(* Sockets, output lines, exit                                             *)
(***************************************************************************)
NoSocket     == [state |-> "none",   host |-> "", port |-> 0]
ClosedSocket == [state |-> "closed", host |-> "", port |-> 0]
\* TCPServer(("", PORT), ...): the empty host is every local interface
BoundSocket  == [state |-> "listening", host |-> "", port |-> PORT]

\* A printed line is the sequence of the literal and interpolated parts of
\* its f-string.
UrlLine  == <<"Serving at http://localhost:", ToString(PORT)>>
DirLine  == <<"Serving directory: ", SERVE_DIR, "/">>
HintLine == <<"Press Ctrl+C to stop">>

LineContains(line, part) == \E i \in DOMAIN line : line[i] = part

\* Exit status of a process ended by an uncaught exception other than
\* KeyboardInterrupt: the interpreter prints the traceback and exits 1.
\* An uncaught KeyboardInterrupt ends the process with status 1 (CPython
\* before 3.8) or by re-raising SIGINT, which a shell reports as 130.
KeyboardInterruptStatus == {1, 130}

\* The exception closes the connection being handled (shutdown_request),
\* leaves the with block (server_close) and ends the script.  last and
\* ref describe the running server and end with it.
Die(exc, code) ==
    /\ pc' = "exited"
    /\ uncaught' = exc
    /\ exitCode' = code
    /\ listener' = IF listener.state = "listening" THEN ClosedSocket ELSE listener
    /\ req' = NoReq
    /\ last' = NoTxn
    /\ ref' = NoTxn

(***************************************************************************)
(* Initial states: the process is about to run its first statement.        *)
(***************************************************************************)
Init ==
    /\ pc = "start"
    /\ fs \in FsStates
    /\ initialRoot = fs.root
    /\ cwdWritable \in (IF fs.root = "absent" THEN BOOLEAN ELSE {TRUE})
    /\ portFree \in BOOLEAN
    /\ listener = NoSocket
    /\ binds = 0
    /\ stdout = <<>>
    /\ req = NoReq
    /\ accepted = FALSE
    /\ last = NoTxn
    /\ ref = NoTxn
    /\ exitCode = -1
    /\ uncaught = "none"

\* Mutant: the script goes on to bind without creating the directory.
MakeDirs_skipped ==
    /\ pc = "start"
    /\ pc' = "bind"
    /\ UNCHANGED <<fs, initialRoot, cwdWritable, portFree, listener, binds,
                   stdout, req, accepted, last, ref, exitCode, uncaught>>

(***************************************************************************)
(* os.makedirs(SERVE_DIR, exist_ok=True)                                   *)
(***************************************************************************)
MakeDirs ==
    /\ pc = "start"
    /\ UNCHANGED <<initialRoot, cwdWritable, portFree, binds, stdout, accepted>>
    /\ CASE fs.root = "dir" ->
              \* exist_ok: nothing to do
              /\ pc' = "bind"
              /\ UNCHANGED <<fs, listener, exitCode, uncaught, req, last, ref>>
         [] fs.root = "absent" /\ cwdWritable ->
              /\ fs' = EmptyDir
              /\ pc' = "bind"
              /\ UNCHANGED <<listener, exitCode, uncaught, req, last, ref>>
         [] fs.root = "absent" /\ ~cwdWritable ->
              /\ Die("PermissionError", 1)
              /\ UNCHANGED fs
         [] fs.root = "file" ->
              \* exist_ok does not cover a non-directory
              /\ Die("FileExistsError", 1)
              /\ UNCHANGED fs

\* Mutant: a failed bind is swallowed and the script goes on.
ServerBind_swallowsError ==
    /\ pc = "bind"
    /\ binds' = binds + 1
    /\ listener' = IF portFree THEN BoundSocket ELSE listener
    /\ pc' = "print1"
    /\ UNCHANGED <<fs, initialRoot, cwdWritable, portFree, stdout, req,
                   accepted, last, ref, exitCode, uncaught>>

(***************************************************************************)
(* with socketserver.TCPServer(("", PORT), Handler) as httpd:              *)
(* the constructor binds and listens; OSError propagates out of the script *)
(***************************************************************************)
ServerBind ==
    /\ pc = "bind"
    /\ binds' = binds + 1
    /\ UNCHANGED <<fs, initialRoot, cwdWritable, portFree, stdout, accepted>>
    /\ IF portFree
       THEN /\ listener' = BoundSocket
            /\ pc' = "print1"
            /\ UNCHANGED <<exitCode, uncaught, req, last, ref>>
       ELSE Die("OSError", 1)

(***************************************************************************)
(* The three print statements inside the with block                        *)
(***************************************************************************)
WriteLine(at, line, next) ==
    /\ pc = at
    /\ stdout' = Append(stdout, line)
    /\ pc' = next
    /\ UNCHANGED <<fs, initialRoot, cwdWritable, portFree, listener, binds,
                   req, accepted, last, ref, exitCode, uncaught>>

\* Mutant: the third line is not written.
ReportHint_silent ==
    /\ pc = "print3"
    /\ pc' = "serving"
    /\ UNCHANGED <<fs, initialRoot, cwdWritable, portFree, listener, binds,
                   stdout, req, accepted, last, ref, exitCode, uncaught>>

ReportUrl  == WriteLine("print1", UrlLine, "print2")
ReportDir  == WriteLine("print2", DirLine, "print3")
ReportHint == WriteLine("print3", HintLine, "serving")

(***************************************************************************)
(* httpd.serve_forever(): accept a connection, read its request, handle    *)
(* it in the same thread, go back to waiting.                              *)
(***************************************************************************)
Accept ==
    /\ pc = "serving"
    /\ listener.state = "listening"
    /\ \E r \in Requests : req' = r
    /\ accepted' = TRUE
    /\ pc' = "handling"
    \* the request just handled becomes history
    /\ last' = NoTxn
    /\ ref' \in (IF last = NoTxn THEN {ref} ELSE {ref, last})
    /\ UNCHANGED <<fs, initialRoot, cwdWritable, portFree, listener, binds,
                   stdout, exitCode, uncaught>>

\* Mutant: the error of a missing file is raised instead of answered, and
\* ends the script.
Finish_missingIsFatal ==
    /\ pc = "handling"
    /\ fs' = fs
    /\ UNCHANGED <<initialRoot, cwdWritable, portFree, binds, stdout, accepted>>
    /\ IF Respond(req, fs).status = 404
       THEN Die("FileNotFoundError", 1)
       ELSE /\ last' = [req |-> req, dir |-> Handler_directory,
                        resp |-> Respond(req, fs)]
            /\ req' = NoReq
            /\ pc' = "serving"
            /\ UNCHANGED <<listener, ref, exitCode, uncaught>>

\* Mutant: the handler remembers what it has sent and answers 304 to a
\* path it has already served.
Finish_remembersSent ==
    /\ pc = "handling"
    /\ last' = [req |-> req, dir |-> Handler_directory,
                resp |-> IF /\ ref # NoTxn
                            /\ ref.req.path = req.path
                            /\ Respond(req, fs).status = 200
                         THEN [status |-> 304,
                               version |-> StatusLineVersion(req),
                               body |-> EmptyBody]
                         ELSE Respond(req, fs)]
    /\ fs' = fs
    /\ req' = NoReq
    /\ pc' = "serving"
    /\ UNCHANGED <<initialRoot, cwdWritable, portFree, listener, binds,
                   stdout, accepted, ref, exitCode, uncaught>>

\* finish_request: Handler(request, client_address, server) handles the
\* request and returns; serve_forever loops.
Finish ==
    /\ pc = "handling"
    /\ last' = [req |-> req, dir |-> Handler_directory, resp |-> Respond(req, fs)]
    /\ fs' = HandlerWrites(req, fs)
    /\ req' = NoReq
    /\ pc' = "serving"
    /\ UNCHANGED <<initialRoot, cwdWritable, portFree, listener, binds,
                   stdout, accepted, ref, exitCode, uncaught>>

(***************************************************************************)
(* SIGINT: Python raises KeyboardInterrupt in the main thread wherever it  *)
(* is.  Nothing catches it (socketserver catches Exception only), so it    *)
(* leaves the with block and ends the script with a traceback.             *)
(***************************************************************************)
Interrupt ==
    /\ pc # "exited"
    /\ \E code \in KeyboardInterruptStatus : Die("KeyboardInterrupt", code)
    /\ UNCHANGED <<fs, initialRoot, cwdWritable, portFree, binds, stdout,
                   accepted>>

(***************************************************************************)
(* Another process rewrites, creates or deletes a file under SERVE_DIR     *)
(* (for instance a rebuild of the site).                                   *)
(***************************************************************************)
EnvWrite ==
    /\ pc # "exited"
    /\ fs.root = "dir"
    /\ \/ \E n \in FileNames, file \in FileRec :
              \* create or overwrite n
              /\ (IF n \in DOMAIN fs.files THEN fs.files[n] # file ELSE TRUE)
              /\ fs' = [fs EXCEPT !.files =
                           [m \in DOMAIN fs.files \cup {n} |->
                               IF m = n THEN file ELSE fs.files[m]]]
       \/ \E n \in DOMAIN fs.files :
              \* delete n
              fs' = [fs EXCEPT !.files = [m \in DOMAIN fs.files \ {n} |-> fs.files[m]]]
       \/ \* chmod of the directory
          fs' = [fs EXCEPT !.listable = ~fs.listable]
    /\ last' = NoTxn
    /\ ref' = NoTxn
    /\ UNCHANGED <<pc, initialRoot, cwdWritable, portFree, listener, binds,
                   stdout, req, accepted, exitCode, uncaught>>

Next ==
    \/ MakeDirs
    \/ ServerBind
    \/ ReportUrl
    \/ ReportDir
    \/ ReportHint
    \/ Accept
    \/ Finish
    \/ Interrupt
    \/ EnvWrite

Spec == Init /\ [][Next]_vars

TypeOK ==
    /\ pc \in {"start", "bind", "print1", "print2", "print3", "serving",
               "handling", "exited"}
    /\ fs \in FsStates
    /\ initialRoot \in {"absent", "file", "dir"}
    /\ cwdWritable \in BOOLEAN
    /\ portFree \in BOOLEAN
    /\ listener \in {NoSocket, BoundSocket, ClosedSocket}
    /\ binds \in {0, 1}
    /\ stdout \in {<<>>, <<UrlLine>>, <<UrlLine, DirLine>>,
                   <<UrlLine, DirLine, HintLine>>}
    /\ req \in Requests \cup {NoReq}
    /\ accepted \in BOOLEAN
    /\ last.req \in Requests \cup {NoReq}
    /\ ref.req \in Requests \cup {NoReq}
    /\ exitCode \in {-1, 0, 1, 130}
    /\ uncaught \in {"none", "PermissionError", "FileExistsError", "OSError",
                     "KeyboardInterrupt"}

(***************************************************************************)
(* Step predicates used by the properties                                  *)
(***************************************************************************)
\* The script is inside the with block: the listener exists.
Live == pc \in {"print1", "print2", "print3", "serving", "handling"}

\* A step of the program (EnvWrite is the only step that leaves pc alone).
ProgramStep == pc' # pc

\* The step that completes the handling of req against fs.
Handled == pc = "handling" /\ pc' # "handling" /\ uncaught' # "KeyboardInterrupt"

\* The URL path names a regular file directly under the root directory.
NamesFile(path, f) ==
    /\ Len(path) = 1
    /\ f.root = "dir"
    /\ path[1] \in DOMAIN f.files

\* The URL path names nothing under the root directory.
NamesNothing(path, f) ==
    /\ Len(path) = 1
    /\ path[1] \notin DOMAIN f.files

\* The request carries an If-Modified-Since date that file is not newer than.
NotModifiedSince(r, file) == r.ims # 0 /\ file.mtime <= r.ims

\* An index file is present in the root directory (of the two names the
\* library looks for, index.html is the one among FileNames).
HasIndex(f) == "index.html" \in DOMAIN f.files
TheIndex(f) == f.files["index.html"]

(***************************************************************************)
(* C1: the root directory exists in every state in which the listener is   *)
(* bound or a connection is being handled, and already when the bind is    *)
(* attempted: startup creates it before anything else, whether or not it   *)
(* existed when the process started.                                       *)
(***************************************************************************)
C1_RootExistsBeforeBind ==
    /\ (listener.state = "listening" \/ Live) => fs.root = "dir"
    /\ binds > 0 => fs.root = "dir"
    /\ accepted => fs.root = "dir"

\* a connection is being handled in a directory startup had to create
C1_Witness ==
    /\ initialRoot = "absent"
    /\ pc = "handling"
    /\ listener.state = "listening"
    /\ fs.root = "dir"

(***************************************************************************)
(* C2 as stated: when the server starts accepting, exactly two lines have  *)
(* been written to standard output, one with the port, one with the        *)
(* directory name.                                                         *)
(***************************************************************************)
C2_ExactlyTwoLines ==
    pc \in {"serving", "handling"} =>
        /\ Len(stdout) = 2
        /\ \E i \in DOMAIN stdout : LineContains(stdout[i], "8000")
        /\ \E i \in DOMAIN stdout : LineContains(stdout[i], "dist")

(***************************************************************************)
(* C2 amended: nothing is written before the bind succeeds, and when the   *)
(* server starts accepting exactly three lines have been written: the URL  *)
(* line containing the port, the directory line containing the directory   *)
(* name, and the line "Press Ctrl+C to stop"; no line is written after.    *)
(***************************************************************************)
C2_ThreeLines ==
    /\ Len(stdout) > 0 => binds = 1 /\ portFree
    /\ (pc \in {"serving", "handling"} \/ accepted) =>
          /\ Len(stdout) = 3
          /\ LineContains(stdout[1], "8000")
          /\ LineContains(stdout[2], "dist")
          /\ stdout[3] = <<"Press Ctrl+C to stop">>

\* waiting for the first connection, the three lines written
C2_Witness ==
    /\ pc = "serving"
    /\ ~accepted
    /\ Len(stdout) = 3
    /\ LineContains(stdout[1], "8000")
    /\ LineContains(stdout[2], "dist")

(***************************************************************************)
(* C3 as stated: an interrupt while the server is serving ends the process *)
(* with exit code 0 and no uncaught exception.                             *)
(***************************************************************************)
C3_InterruptExitsCleanly ==
    [][(pc \in {"serving", "handling"} /\ pc' = "exited")
          => (exitCode' = 0 /\ uncaught' = "none")]_vars

(***************************************************************************)
(* C4: once the bind has failed the process has exited with a nonzero exit *)
(* code, nothing has been written to standard output, no connection was    *)
(* accepted, and the bind was attempted once only.                         *)
(***************************************************************************)
C4_BindFailureIsFatal ==
    (binds > 0 /\ ~portFree) =>
        /\ pc = "exited"
        /\ exitCode \notin {-1, 0}
        /\ uncaught = "OSError"
        /\ stdout = <<>>
        /\ ~accepted
        /\ listener.state # "listening"
        /\ binds = 1

\* the bind was attempted on a port that is in use
C4_Witness ==
    /\ binds = 1
    /\ ~portFree
    /\ pc = "exited"
    /\ exitCode = 1

(***************************************************************************)
(* C5 as stated: every GET whose path names an existing regular file under *)
(* the root directory is answered 200 with the file's content at the time  *)
(* of handling.  (Stated for the files the server can open: the claim      *)
(* fails for those already.)                                               *)
(***************************************************************************)
C5_EveryGetOfAFile ==
    [][(/\ Handled
        /\ req.method = "GET"
        /\ NamesFile(req.path, fs)
        /\ fs.files[req.path[1]].readable)
          => /\ last'.resp.status = 200
             /\ last'.resp.body = FileBody(fs.files[req.path[1]].content)]_vars

(***************************************************************************)
(* C5 amended: every GET whose path names an existing regular file that    *)
(* the server can open, and that does not carry an If-Modified-Since date  *)
(* the file is not newer than, is answered 200 with the file's content at  *)
(* the time of handling.                                                   *)
(***************************************************************************)
C5_GetOfAReadableFile ==
    [][(/\ Handled
        /\ req.method = "GET"
        /\ NamesFile(req.path, fs)
        /\ fs.files[req.path[1]].readable
        /\ ~NotModifiedSince(req, fs.files[req.path[1]]))
          => /\ last'.resp.status = 200
             /\ last'.resp.body = FileBody(fs.files[req.path[1]].content)]_vars

\* /a.txt holding c2 was just served
C5_Witness ==
    /\ pc = "serving"
    /\ last.req.method = "GET"
    /\ last.req.path = <<"a.txt">>
    /\ NamesFile(last.req.path, fs)
    /\ fs.files["a.txt"].content = "c2"
    /\ last.resp.status = 200
    /\ last.resp.body = FileBody("c2")

(***************************************************************************)
(* C6: every GET whose path names no file or directory under the root      *)
(* directory is answered 404, and the server is then serving again: still  *)
(* listening, not exited, no exception.                                    *)
(***************************************************************************)
C6_MissingIs404 ==
    [][(Handled /\ req.method = "GET" /\ NamesNothing(req.path, fs))
          => /\ last'.resp.status = 404
             /\ pc' = "serving"
             /\ listener' = listener
             /\ listener.state = "listening"
             /\ exitCode' = -1
             /\ uncaught' = "none"]_vars

\* a request was answered 404 earlier and a later one has been answered too
C6_Witness ==
    /\ pc = "serving"
    /\ ref.req.method = "GET"
    /\ ref.req.path = <<"missing">>
    /\ ref.resp.status = 404
    /\ last # NoTxn
    /\ last.resp.status = 200

(***************************************************************************)
(* C7 as stated: GET / returns the index file's content when an index file *)
(* is present in the root directory and a listing of the root directory    *)
(* with status 200 otherwise.  (Stated for an index file the server can    *)
(* open and a directory it can list: the claim fails for those already.)   *)
(***************************************************************************)
C7_RootIsIndexOrListing ==
    [][(Handled /\ req.method = "GET" /\ req.path = <<>>)
          => /\ (HasIndex(fs) /\ TheIndex(fs).readable)
                => last'.resp.body = FileBody(TheIndex(fs).content)
             /\ (~HasIndex(fs) /\ fs.listable)
                => /\ last'.resp.status = 200
                   /\ last'.resp.body = ListingBody(DOMAIN fs.files)]_vars

(***************************************************************************)
(* C7 amended: GET / returns, with status 200, the index file's content    *)
(* when an index file is present that the server can open and the request  *)
(* carries no If-Modified-Since date the index file is not newer than, and *)
(* a listing of the root directory when no index file is present and the   *)
(* directory can be listed; in particular the directory startup has just   *)
(* created gives an empty listing with status 200.                         *)
(***************************************************************************)
C7_RootIsReadableIndexOrListing ==
    [][(Handled /\ req.method = "GET" /\ req.path = <<>>)
          => /\ (HasIndex(fs) /\ TheIndex(fs).readable
                   /\ ~NotModifiedSince(req, TheIndex(fs)))
                => /\ last'.resp.status = 200
                   /\ last'.resp.body = FileBody(TheIndex(fs).content)
             /\ (~HasIndex(fs) /\ fs.listable)
                => /\ last'.resp.status = 200
                   /\ last'.resp.body = ListingBody(DOMAIN fs.files)
             /\ fs = EmptyDir
                => /\ last'.resp.status = 200
                   /\ last'.resp.body = ListingBody({})]_vars

\* GET / of the directory startup created: an empty listing; and before
\* that nothing else could have been served
C7_Witness ==
    /\ initialRoot = "absent"
    /\ fs = EmptyDir
    /\ pc = "serving"
    /\ last.req.method = "GET"
    /\ last.req.path = <<>>
    /\ last.resp.status = 200
    /\ last.resp.body = ListingBody({})

(***************************************************************************)
(* C8: the only change a step of the program makes to the file system is   *)
(* creating the empty root directory when it is absent; handling a request *)
(* leaves the files under the root directory and their contents unchanged. *)
(***************************************************************************)
C8_NoWrites ==
    [][ProgramStep
          => /\ fs' # fs => (pc = "start" /\ fs.root = "absent" /\ fs' = EmptyDir)
             /\ Handled => fs' = fs]_vars

\* a POST for an existing file was answered and the file is still there
C8_Witness ==
    /\ pc = "serving"
    /\ last.req.method = "POST"
    /\ last.req.path = <<"a.txt">>
    /\ NamesFile(last.req.path, fs)
    /\ last.resp.status = 501

(***************************************************************************)
(* C9 as stated: every response carries protocol version HTTP/1.1, and the *)
(* listener is bound to port 8000 on all interfaces and the handler serves *)
(* 'dist' for as long as the server lives.                                 *)
(***************************************************************************)
C9_Http11OnPort8000 ==
    /\ last # NoTxn => last.resp.version = "HTTP/1.1" /\ last.dir = "dist"
    /\ Live => listener = [state |-> "listening", host |-> "", port |-> 8000]

(***************************************************************************)
(* C9 amended: every response that has a status line carries protocol      *)
(* version HTTP/1.0 (the reply to an HTTP/0.9 request has no status line), *)
(* and the listener is bound to port 8000 on all interfaces and the        *)
(* handler serves 'dist' for as long as the server lives.                  *)
(***************************************************************************)
C9_Http10OnPort8000 ==
    /\ last # NoTxn =>
          /\ last.resp.version =
                (IF last.req.version = "HTTP/0.9" THEN "none" ELSE "HTTP/1.0")
          /\ last.dir = "dist"
    /\ Live => listener = [state |-> "listening", host |-> "", port |-> 8000]

\* an HTTP/1.1 request was answered with an HTTP/1.0 status line
C9_Witness ==
    /\ pc = "serving"
    /\ last.req.version = "HTTP/1.1"
    /\ last.resp.version = "HTTP/1.0"
    /\ last.dir = "dist"
    /\ listener.port = 8000

====
